---- MODULE Spec2Model ----
(***************************************************************************)
(* Service Desk integration of mcp-atlassian: the eight FastMCP tool       *)
(* handlers of servers/servicedesk.py and the ServiceDeskFetcher client of *)
(* servicedesk/__init__.py, as a state machine over handler invocations.   *)
(*                                                                         *)
(* An invocation is suspended at `await get_jira_fetcher(ctx)`, resumes    *)
(* and runs up to its outbound HTTP call (or returns before it), receives  *)
(* the network's answer and returns a string, or lets an exception escape. *)
(***************************************************************************)
EXTENDS Integers, Sequences, FiniteSets, TLC

\* ------------------------------------------------------------------ bounds
\* Longest usernames argument enumerated character by character.
MaxUsernamesLen == 3
\* Number of invocations the host may hold in flight at once.
NumInvocations == 2
\* Largest pagination offset / page size a caller passes besides the defaults.
MaxPage == 1

\* ------------------------------------------------------- python values
\* A Python scalar as the handlers see it: None, a str or an int. "absent"
\* marks an attribute the configuration object does not have at all.
PyNone == [type |-> "NoneType", text |-> ""]
PyAbsent == [type |-> "absent", text |-> ""]
PyStr(s) == [type |-> "str", text |-> s]
PyInt(s) == [type |-> "int", text |-> s]

\* Python truthiness of a scalar: None, "" and 0 are falsy.
Truthy(v) ==
    /\ v.type \in {"str", "int"}
    /\ ~(v.type = "str" /\ v.text = "")
    /\ ~(v.type = "int" /\ v.text = "0")

\* str(v) / f"{v}": the text of the value, typed str.
Str(v) == PyStr(IF v.type = "NoneType" THEN "None" ELSE v.text)

\* hasattr(obj, name) on a configuration attribute.
hasattr(attr) == attr.type # "absent"

\* --------------------------------------------------------- json values
\* A JSON document: kind, scalar text, and members (object: key/value in
\* insertion order; array: items with empty keys).
JNone == [kind |-> "none", text |-> "", members |-> <<>>]
JNull == [kind |-> "null", text |-> "null", members |-> <<>>]
JStr(s) == [kind |-> "string", text |-> s, members |-> <<>>]
JNum(s) == [kind |-> "number", text |-> s, members |-> <<>>]
JObj(m) == [kind |-> "object", text |-> "", members |-> m]
JArr(items) ==
    [kind |-> "array", text |-> "",
     members |-> [n \in 1..Len(items) |-> [k |-> "", v |-> items[n]]]]
KV(key, val) == [k |-> key, v |-> val]

\* A Python scalar as the JSON encoder writes it: str -> string, int -> number.
ToJson(v) ==
    CASE v.type = "str" -> JStr(v.text)
      [] v.type = "int" -> JNum(v.text)
      [] OTHER -> JNull

\* Python truthiness of a decoded JSON document.
JTruthy(j) ==
    CASE j.kind \in {"object", "array"} -> j.members # <<>>
      [] j.kind = "string" -> j.text # ""
      [] j.kind = "number" -> j.text # "0"
      [] j.kind = "bool" -> j.text = "true"
      [] OTHER -> FALSE

Keys(m) == {m[n].k : n \in 1..Len(m)}
IndexOf(m, key) == CHOOSE n \in 1..Len(m) : m[n].k = key

\* d[key] = val on an insertion-ordered dict.
DictSet(m, key, val) ==
    IF key \in Keys(m)
    THEN [m EXCEPT ![IndexOf(m, key)] = KV(key, val)]
    ELSE Append(m, KV(key, val))

\* dict.get(key, default) on a decoded object.
DictGet(m, key, default) ==
    IF key \in Keys(m) THEN m[IndexOf(m, key)].v ELSE default

\* ----------------------------------------------------------- outcomes
\* What a Python call produces: a value, or a raised exception.
NoResponse == [status |-> 0, text |-> "", json |-> JNone]
Ok(v) == [raised |-> FALSE, value |-> v,
          exc |-> [cls |-> "", msg |-> "", response |-> NoResponse]]
Raise(c, m, r) == [raised |-> TRUE, value |-> JNone,
                   exc |-> [cls |-> c, msg |-> m, response |-> r]]

\* Exception classes that are requests.exceptions.RequestException.
RequestExceptions == {"HTTPError", "ConnectionError", "RequestsJSONDecodeError"}

\* ------------------------------------------------------ configuration
\* The Jira configuration the fetcher exposes: read-only for the handlers.
\* Each credential attribute may be missing, None or set.
AttrValues(v) == {PyAbsent, PyNone, PyStr(v)}
Urls == {<<"https://jira">>, <<"https://jira", "/">>}
Configs ==
    [url : Urls,
     username : AttrValues("user"),
     api_token : AttrValues("token"),
     personal_token : AttrValues("pat"),
     default_service_desk_id : {PyNone, PyStr("7")}]

\* str.rstrip('/') on a URL held as a sequence of pieces.
RECURSIVE rstrip(_)
rstrip(url) ==
    IF url # <<>> /\ url[Len(url)] = "/"
    THEN rstrip(SubSeq(url, 1, Len(url) - 1))
    ELSE url

\* ---------------------------------------------------------- the client
NoAuth == [username |-> PyAbsent, password |-> PyAbsent]
HTTPBasicAuth(u, p) == [username |-> u, password |-> p]
NoClient == [built |-> FALSE, base_url |-> <<>>, auth |-> NoAuth]

\* ServiceDeskFetcher.__init__: the base URL without trailing slashes and
\* the authentication chosen by probing the configuration's attributes.
ServiceDeskFetcher_init(jira_config) ==
    IF hasattr(jira_config.username) /\ hasattr(jira_config.api_token)
    THEN Ok([built |-> TRUE, base_url |-> rstrip(jira_config.url),
             auth |-> HTTPBasicAuth(jira_config.username, jira_config.api_token)])
    ELSE IF hasattr(jira_config.personal_token)
    THEN Ok([built |-> TRUE, base_url |-> rstrip(jira_config.url),
             auth |-> HTTPBasicAuth(PyStr(""), jira_config.personal_token)])
    ELSE Raise("ValueError", "No valid authentication method found in Jira config",
               NoResponse)

headers == [Accept |-> "application/json", ContentType |-> "application/json"]

\* An outbound HTTP request as handed to the requests library.
NoParams == [given |-> FALSE, start |-> 0, limit |-> 0]
Params(s, l) == [given |-> TRUE, start |-> s, limit |-> l]
NoRequest ==
    [method |-> "", url |-> <<>>, auth |-> NoAuth, headers |-> headers,
     params |-> NoParams, json |-> JNone]
HttpRequest(client, method, url, params, json) ==
    [method |-> method, url |-> url, auth |-> client.auth, headers |-> headers,
     params |-> params, json |-> json]

\* _make_request, up to requests.request: the Service Desk API URL.
make_request(client, method, endpoint, params, json) ==
    HttpRequest(client, method,
                client.base_url \o <<"/rest/servicedeskapi/">> \o endpoint,
                params, json)

\* What the network gives back for one request: no response at all, or a
\* response with a status, its raw text and, when the text is JSON, its
\* decoded document ("invalid" otherwise).
JInvalid == [kind |-> "invalid", text |-> "", members |-> <<>>]
Response(status, text, json) == [status |-> status, text |-> text, json |-> json]
NetFailure == [failed |-> TRUE, response |-> NoResponse]
NetResponse(r) == [failed |-> FALSE, response |-> r]

OrgList == JArr(<<JObj(<<KV("id", JStr("1")), KV("name", JStr("Acme"))>>)>>)
FieldList == JArr(<<JObj(<<KV("fieldId", JStr("summary"))>>)>>)
Responses ==
    {Response(200, "{values}", JObj(<<KV("size", JNum("1")), KV("values", OrgList)>>)),
     Response(200, "{requestTypeFields}", JObj(<<KV("requestTypeFields", FieldList)>>)),
     Response(201, "{issueKey}", JObj(<<KV("issueKey", JStr("CS-2"))>>)),
     Response(200, "[1]", JArr(<<JNum("1")>>)),
     Response(200, "<html>", JInvalid),
     Response(204, "", JInvalid),
     Response(400, "{errorMessage}", JObj(<<KV("errorMessage", JStr("bad"))>>)),
     Response(400, "Bad Request", JInvalid),
     Response(503, "Service Unavailable", JInvalid)}
NetOutcomes == {NetFailure} \cup {NetResponse(r) : r \in Responses}

\* Response.raise_for_status: HTTPError carrying the response for 4xx/5xx.
raise_for_status(response) ==
    IF response.status >= 400 /\ response.status < 500
    THEN Raise("HTTPError", ToString(response.status) \o " Client Error", response)
    ELSE IF response.status >= 500 /\ response.status < 600
    THEN Raise("HTTPError", ToString(response.status) \o " Server Error", response)
    ELSE Ok(JNone)

\* Response.json(): the decoded body, or requests' JSONDecodeError.
response_json(response) ==
    IF response.json.kind = "invalid"
    THEN Raise("RequestsJSONDecodeError", "Expecting value", NoResponse)
    ELSE Ok(response.json)

\* _make_request, from the answer of requests.request on: a failed
\* transport and an error status are logged and re-raised unchanged.
make_request_result(net) ==
    IF net.failed
    THEN Raise("ConnectionError", "Connection refused", NoResponse)
    ELSE IF raise_for_status(net.response).raised
    THEN raise_for_status(net.response)
    ELSE response_json(net.response)

\* obj.get(key, default) on what Response.json() returned: only a dict has it.
py_get(j, key, default) ==
    IF j.kind = "object"
    THEN Ok(DictGet(j.members, key, default))
    ELSE Raise("AttributeError", "object has no attribute 'get'", NoResponse)

\* -------------------------------------------------- fetcher operations
\* Each operation of the client is its request (what it hands to
\* _make_request, or the exception it raises before that) and its result
\* (what it makes of the network's answer).

\* _make_request(...).get(key, []): the client's unwrapping of a list wrapper.
Unwrap(net, key) ==
    IF make_request_result(net).raised
    THEN make_request_result(net)
    ELSE py_get(make_request_result(net).value, key, JArr(<<>>))

get_service_desks(client) ==
    make_request(client, "GET", <<"servicedesk">>, NoParams, JNone)

get_request_types(client, service_desk_id) ==
    make_request(client, "GET",
                 <<"servicedesk/", Str(service_desk_id).text, "/requesttype">>,
                 NoParams, JNone)

get_organisations(client, service_desk_id) ==
    make_request(client, "GET",
                 <<"servicedesk/", Str(service_desk_id).text, "/organization">>,
                 NoParams, JNone)

get_organization_users(client, organization_id, start, limit) ==
    make_request(client, "GET",
                 <<"organization/", Str(organization_id).text, "/user">>,
                 Params(start, limit), JNone)

add_users_to_organization(client, organization_id, usernames) ==
    make_request(client, "POST",
                 <<"organization/", Str(organization_id).text, "/user">>,
                 NoParams, JObj(<<KV("usernames", JArr(usernames))>>))

get_request_type_fields(client, service_desk_id, request_type_id) ==
    make_request(client, "GET",
                 <<"servicedesk/", Str(service_desk_id).text, "/requesttype/",
                   Str(request_type_id).text, "/field">>,
                 NoParams, JNone)

\* dict.update(other) with a decoded JSON document: a mapping is merged key
\* by key, a sequence must consist of key/value pairs, anything else is not
\* iterable (a number, a bool) or yields items that are no pairs (a string).
RECURSIVE UpdateFrom(_, _, _)
UpdateFrom(m, pairs, n) ==
    IF n > Len(pairs) THEN m
    ELSE UpdateFrom(DictSet(m, pairs[n].k, pairs[n].v), pairs, n + 1)

IsPair(item) ==
    /\ item.kind = "array"
    /\ Len(item.members) = 2
    /\ item.members[1].v.kind = "string"
PairsOf(items) ==
    [n \in 1..Len(items) |->
        KV(items[n].v.members[1].v.text, items[n].v.members[2].v)]

dict_update(m, other) ==
    CASE other.kind = "object" -> Ok(UpdateFrom(m, other.members, 1))
      [] other.kind = "array"
           /\ \A n \in 1..Len(other.members) : IsPair(other.members[n].v) ->
         Ok(UpdateFrom(m, PairsOf(other.members), 1))
      [] other.kind = "array"
           /\ \E n \in 1..Len(other.members) :
                 other.members[n].v.kind \in {"number", "bool", "null"} ->
         Raise("TypeError", "cannot convert dictionary update sequence element to a sequence",
               NoResponse)
      [] other.kind = "string" ->
         Raise("ValueError", "dictionary update sequence element #0 has length 1; 2 is required",
               NoResponse)
      [] other.kind \in {"number", "bool"} ->
         Raise("TypeError", "object is not iterable", NoResponse)

\* create_customer_request, lines 131-138: summary and description first,
\* then the caller's map over them when it is truthy.
create_field_values(summary, description, request_field_values) ==
    IF JTruthy(request_field_values)
    THEN dict_update(<<KV("summary", JStr(summary)),
                       KV("description", JStr(description))>>,
                     request_field_values)
    ELSE Ok(<<KV("summary", JStr(summary)), KV("description", JStr(description))>>)

\* Faulty variant: the ids go into the body as they were given.
create_request_data_raw_ids(service_desk_id, request_type_id, field_values) ==
    JObj(<<KV("serviceDeskId", ToJson(service_desk_id)),
           KV("requestTypeId", ToJson(request_type_id)),
           KV("requestFieldValues", JObj(field_values))>>)

\* create_customer_request, lines 142-146: both ids through str().
create_request_data(service_desk_id, request_type_id, field_values) ==
    JObj(<<KV("serviceDeskId", ToJson(Str(service_desk_id))),
           KV("requestTypeId", ToJson(Str(request_type_id))),
           KV("requestFieldValues", JObj(field_values))>>)

\* create_customer_request: the request, or the exception dict.update raised.
create_customer_request(client, service_desk_id, request_type_id, summary, description, request_field_values) ==
    IF create_field_values(summary, description, request_field_values).raised
    THEN create_field_values(summary, description, request_field_values)
    ELSE Ok(make_request(client, "POST", <<"request">>, NoParams,
                create_request_data(service_desk_id, request_type_id,
                    create_field_values(summary, description,
                                        request_field_values).value)))

\* update_request(issue_key, **fields): the PUT on the Jira API.
update_request(client, issue_key, fields) ==
    HttpRequest(client, "PUT",
                client.base_url \o <<"/rest/api/3/issue/", issue_key>>,
                NoParams, JObj(<<KV("fields", JObj(fields))>>))

\* update_request after requests.put: raise_for_status, then the fixed answer.
update_request_result(net) ==
    IF net.failed
    THEN Raise("ConnectionError", "Connection refused", NoResponse)
    ELSE IF raise_for_status(net.response).raised
    THEN raise_for_status(net.response)
    ELSE Ok(JObj(<<KV("status", JStr("updated"))>>))

\* The attributes a ServiceDeskFetcher has that are its operations.
FetcherMethods ==
    {"get_service_desks", "get_request_types", "get_organisations",
     "get_organization_users", "add_users_to_organization",
     "get_request_type_fields", "create_customer_request", "update_request"}

\* servicedesk.<name>: the bound method, or AttributeError.
getattr(name) ==
    IF name \in FetcherMethods
    THEN Ok(JNone)
    ELSE Raise("AttributeError",
               "'ServiceDeskFetcher' object has no attribute '" \o name \o "'",
               NoResponse)

\* ----------------------------------------------------- returned strings
\* The string a handler returns, by the pieces its f-string or json.dumps
\* call puts together: head, status, body (pretty-printed or as is), tail.
Result(head, status, body, pretty, tail) ==
    [head |-> head, status |-> status, body |-> body, pretty |-> pretty, tail |-> tail]
NoResult == Result("", 0, JNone, FALSE, "")
Literal(s) == Result(s, 0, JNone, FALSE, "")
\* json.dumps(v, indent=2)
JsonDumps(v) == Result("", 0, v, TRUE, "")
\* f"{head}{e}"
Fmt(head, text) == Result(head, 0, JStr(text), FALSE, "")

NoServiceDeskId ==
    Literal("Error: No service_desk_id provided and JIRA_DEFAULT_SERVICE_DESK_ID not set")
NoValidUsernames == Literal("Error: No valid usernames provided")

\* --------------------------------------------------------- json.loads
\* json.loads on the strings callers pass: the decoded document, or
\* json.JSONDecodeError.
JsonTexts ==
    {"", "{bad", "{}", "{\"customfield_10500\": [\"53\"]}",
     "{\"summary\": \"other\"}", "{\"issue_key\": \"CS-9\"}",
     "[1]", "[[\"k\", \"v\"]]", "5", "null", "\"ab\""}
json_loads(s) ==
    CASE s = "{}" -> Ok(JObj(<<>>))
      [] s = "{\"customfield_10500\": [\"53\"]}" ->
         Ok(JObj(<<KV("customfield_10500", JArr(<<JStr("53")>>))>>))
      [] s = "{\"summary\": \"other\"}" -> Ok(JObj(<<KV("summary", JStr("other"))>>))
      [] s = "{\"issue_key\": \"CS-9\"}" -> Ok(JObj(<<KV("issue_key", JStr("CS-9"))>>))
      [] s = "[1]" -> Ok(JArr(<<JNum("1")>>))
      [] s = "[[\"k\", \"v\"]]" -> Ok(JArr(<<JArr(<<JStr("k"), JStr("v")>>)>>))
      [] s = "5" -> Ok(JNum("5"))
      [] s = "null" -> Ok(JNull)
      [] s = "\"ab\"" -> Ok(JStr("ab"))
      [] s = "" -> Raise("JSONDecodeError", "Expecting value: line 1 column 1 (char 0)",
                         NoResponse)
      [] s = "{bad" ->
         Raise("JSONDecodeError",
               "Expecting property name enclosed in double quotes: line 1 column 2 (char 1)",
               NoResponse)

\* ------------------------------------------------- usernames.split(',')
\* A str as its characters.
Whitespace == {" "}

RECURSIVE split(_, _)
split(str, sep) ==
    IF \E n \in 1..Len(str) : str[n] = sep
    THEN LET first == CHOOSE n \in 1..Len(str) :
                          /\ str[n] = sep
                          /\ \A k \in 1..(n - 1) : str[k] # sep
         IN <<SubSeq(str, 1, first - 1)>> \o split(SubSeq(str, first + 1, Len(str)), sep)
    ELSE <<str>>

RECURSIVE lstrip(_)
lstrip(str) ==
    IF str # <<>> /\ str[1] \in Whitespace THEN lstrip(Tail(str)) ELSE str

RECURSIVE rstrip_ws(_)
rstrip_ws(str) ==
    IF str # <<>> /\ str[Len(str)] \in Whitespace
    THEN rstrip_ws(SubSeq(str, 1, Len(str) - 1))
    ELSE str

strip(str) == lstrip(rstrip_ws(str))

RECURSIVE Join(_)
Join(chars) == IF chars = <<>> THEN "" ELSE Head(chars) \o Join(Tail(chars))

\* Faulty variant: entries are filtered but sent untrimmed.
username_list_untrimmed(usernames) ==
    LET parts == split(usernames, ",")
        kept == SelectSeq(parts, LAMBDA u : strip(u) # <<>>)
    IN [n \in 1..Len(kept) |-> JStr(Join(kept[n]))]

\* [username.strip() for username in usernames.split(',') if username.strip()]
username_list(usernames) ==
    LET parts == split(usernames, ",")
        kept == SelectSeq(parts, LAMBDA u : strip(u) # <<>>)
    IN [n \in 1..Len(kept) |-> JStr(Join(strip(kept[n])))]

\* ------------------------------------------------------- tool handlers
\* A handler's arguments, all eight schemas in one record.
NoArgs ==
    [service_desk_id |-> PyNone, request_type_id |-> PyNone,
     organization_id |-> PyNone, summary |-> "", description |-> "",
     request_field_values |-> PyNone, usernames |-> <<>>,
     start |-> 0, limit |-> 50, issue_key |-> "", custom_fields |-> ""]

\* Where a handler stands after running as far as it can without the
\* network: it returned a string, it handed a request to the requests
\* library, or an exception left it.
StepReturn(client, result) ==
    [kind |-> "return", client |-> client, method |-> "", request |-> NoRequest,
     result |-> result, exc_cls |-> ""]
StepCall(client, method, request) ==
    [kind |-> "call", client |-> client, method |-> method, request |-> request,
     result |-> NoResult, exc_cls |-> ""]
StepRaise(client, exc) ==
    [kind |-> "raise", client |-> client, method |-> "", request |-> NoRequest,
     result |-> NoResult, exc_cls |-> exc.cls]

\* The exception classes of the model; all derive from Exception.
ExceptionClasses ==
    RequestExceptions \cup {"ValueError", "TypeError", "AttributeError", "JSONDecodeError"}

\* Faulty variant: the handlers catch only the requests library's exceptions.
except_RequestException_only(client, exc) ==
    IF exc.cls \in RequestExceptions
    THEN StepReturn(client, Fmt("Error: ", exc.msg))
    ELSE StepRaise(client, exc)

\* except Exception as e: return f"Error: {e}"
except_Exception(client, exc) ==
    IF exc.cls \in ExceptionClasses
    THEN StepReturn(client, Fmt("Error: ", exc.msg))
    ELSE StepRaise(client, exc)

\* except requests.exceptions.HTTPError as e: the status and the body of the
\* response, pretty-printed when it decodes as JSON, its text otherwise.
except_HTTPError(client, exc) ==
    IF exc.response # NoResponse
    THEN IF ~response_json(exc.response).raised
         THEN StepReturn(client, Result("HTTP Error ", exc.response.status,
                                        response_json(exc.response).value, TRUE, ""))
         ELSE StepReturn(client, Result("HTTP Error ", exc.response.status,
                                        JStr(exc.response.text), FALSE, ""))
    ELSE StepReturn(client, Fmt("HTTP Error: ", exc.msg))

\* The two except clauses of the write handlers, in order.
except_HTTPError_then_Exception(client, exc) ==
    IF exc.cls = "HTTPError"
    THEN except_HTTPError(client, exc)
    ELSE except_Exception(client, exc)

\* Faulty variant: the configured default is taken even when the caller gave an id.
resolve_service_desk_id_default_first(jira_config, service_desk_id) ==
    IF Truthy(jira_config.default_service_desk_id)
    THEN jira_config.default_service_desk_id
    ELSE service_desk_id

\* if not service_desk_id: service_desk_id = jira.config.default_service_desk_id
resolve_service_desk_id(jira_config, service_desk_id) ==
    IF ~Truthy(service_desk_id)
    THEN jira_config.default_service_desk_id
    ELSE service_desk_id

servicedesk_get_service_desks(jira_config, args) ==
    LET servicedesk == ServiceDeskFetcher_init(jira_config)
    IN IF servicedesk.raised THEN except_Exception(NoClient, servicedesk.exc)
       ELSE IF getattr("get_service_desks").raised
       THEN except_Exception(servicedesk.value, getattr("get_service_desks").exc)
       ELSE StepCall(servicedesk.value, "get_service_desks",
                     get_service_desks(servicedesk.value))

servicedesk_get_request_types(jira_config, args) ==
    LET service_desk_id == resolve_service_desk_id(jira_config, args.service_desk_id)
        servicedesk == ServiceDeskFetcher_init(jira_config)
    IN IF ~Truthy(service_desk_id) THEN StepReturn(NoClient, NoServiceDeskId)
       ELSE IF servicedesk.raised THEN except_Exception(NoClient, servicedesk.exc)
       ELSE IF getattr("get_request_types").raised
       THEN except_Exception(servicedesk.value, getattr("get_request_types").exc)
       ELSE StepCall(servicedesk.value, "get_request_types",
                     get_request_types(servicedesk.value, service_desk_id))

servicedesk_get_organizations(jira_config, args) ==
    LET service_desk_id == resolve_service_desk_id(jira_config, args.service_desk_id)
        servicedesk == ServiceDeskFetcher_init(jira_config)
    IN IF ~Truthy(service_desk_id) THEN StepReturn(NoClient, NoServiceDeskId)
       ELSE IF servicedesk.raised THEN except_Exception(NoClient, servicedesk.exc)
       ELSE IF getattr("get_organizations").raised
       THEN except_Exception(servicedesk.value, getattr("get_organizations").exc)
       ELSE StepCall(servicedesk.value, "get_organizations",
                     get_organisations(servicedesk.value, service_desk_id))

servicedesk_get_organization_users(jira_config, args) ==
    LET servicedesk == ServiceDeskFetcher_init(jira_config)
    IN IF servicedesk.raised THEN except_Exception(NoClient, servicedesk.exc)
       ELSE IF getattr("get_organization_users").raised
       THEN except_Exception(servicedesk.value, getattr("get_organization_users").exc)
       ELSE StepCall(servicedesk.value, "get_organization_users",
                     get_organization_users(servicedesk.value, args.organization_id,
                                            args.start, args.limit))

servicedesk_add_users_to_organization(jira_config, args) ==
    LET servicedesk == ServiceDeskFetcher_init(jira_config)
    IN IF servicedesk.raised
       THEN except_HTTPError_then_Exception(NoClient, servicedesk.exc)
       ELSE IF username_list(args.usernames) = <<>>
       THEN StepReturn(servicedesk.value, NoValidUsernames)
       ELSE IF getattr("add_users_to_organization").raised
       THEN except_HTTPError_then_Exception(servicedesk.value,
                getattr("add_users_to_organization").exc)
       ELSE StepCall(servicedesk.value, "add_users_to_organization",
                     add_users_to_organization(servicedesk.value, args.organization_id,
                                               username_list(args.usernames)))

servicedesk_get_request_type_fields(jira_config, args) ==
    LET service_desk_id == resolve_service_desk_id(jira_config, args.service_desk_id)
        servicedesk == ServiceDeskFetcher_init(jira_config)
    IN IF ~Truthy(service_desk_id) THEN StepReturn(NoClient, NoServiceDeskId)
       ELSE IF servicedesk.raised THEN except_Exception(NoClient, servicedesk.exc)
       ELSE IF getattr("get_request_type_fields").raised
       THEN except_Exception(servicedesk.value, getattr("get_request_type_fields").exc)
       ELSE StepCall(servicedesk.value, "get_request_type_fields",
                     get_request_type_fields(servicedesk.value, service_desk_id,
                                             args.request_type_id))

\* Faulty variant: a string that does not decode is taken as no field values at all.
parse_request_field_values_lenient(request_field_values) ==
    IF Truthy(request_field_values) /\ ~json_loads(request_field_values.text).raised
    THEN json_loads(request_field_values.text)
    ELSE Ok(JObj(<<>>))

\* servicedesk_create_customer_request, lines 205-210: {} unless a truthy
\* string was given, which json.loads decodes.
parse_request_field_values(request_field_values) ==
    IF Truthy(request_field_values)
    THEN json_loads(request_field_values.text)
    ELSE Ok(JObj(<<>>))

servicedesk_create_customer_request(jira_config, args) ==
    LET service_desk_id == resolve_service_desk_id(jira_config, args.service_desk_id)
        servicedesk == ServiceDeskFetcher_init(jira_config)
        parsed_field_values == parse_request_field_values(args.request_field_values)
        call == create_customer_request(servicedesk.value, service_desk_id,
                    args.request_type_id, args.summary, args.description,
                    parsed_field_values.value)
    IN IF ~Truthy(service_desk_id) THEN StepReturn(NoClient, NoServiceDeskId)
       ELSE IF servicedesk.raised
       THEN except_HTTPError_then_Exception(NoClient, servicedesk.exc)
       ELSE IF parsed_field_values.raised
       THEN StepReturn(servicedesk.value,
                       Fmt("Error parsing request_field_values JSON: ",
                           parsed_field_values.exc.msg))
       ELSE IF getattr("create_customer_request").raised
       THEN except_HTTPError_then_Exception(servicedesk.value,
                getattr("create_customer_request").exc)
       ELSE IF call.raised
       THEN except_HTTPError_then_Exception(servicedesk.value, call.exc)
       ELSE StepCall(servicedesk.value, "create_customer_request", call.value)

\* update_request(issue_key, **parsed_custom_fields): what follows ** must
\* be a mapping, and none of its keys may name a parameter already bound.
bind_keywords(parsed_custom_fields) ==
    IF parsed_custom_fields.kind # "object"
    THEN Raise("TypeError", "argument after ** must be a mapping", NoResponse)
    ELSE IF Keys(parsed_custom_fields.members) \cap {"self", "issue_key"} # {}
    THEN Raise("TypeError", "update_request() got multiple values for argument",
               NoResponse)
    ELSE Ok(parsed_custom_fields.members)

servicedesk_update_issue(jira_config, args) ==
    LET servicedesk == ServiceDeskFetcher_init(jira_config)
        parsed_custom_fields == json_loads(args.custom_fields)
        fields == bind_keywords(parsed_custom_fields.value)
    IN IF servicedesk.raised THEN except_Exception(NoClient, servicedesk.exc)
       ELSE IF parsed_custom_fields.raised
       THEN StepReturn(servicedesk.value,
                       Fmt("Error parsing custom_fields JSON: ",
                           parsed_custom_fields.exc.msg))
       ELSE IF getattr("update_request").raised
       THEN except_Exception(servicedesk.value, getattr("update_request").exc)
       ELSE IF fields.raised THEN except_Exception(servicedesk.value, fields.exc)
       ELSE StepCall(servicedesk.value, "update_request",
                     update_request(servicedesk.value, args.issue_key, fields.value))

\* The handlers from the network's answer on: the client's result, then
\* json.dumps(result, indent=2) or the except clauses.
get_service_desks_returns(client, args, net) ==
    LET service_desks == Unwrap(net, "values")
    IN IF service_desks.raised THEN except_Exception(client, service_desks.exc)
       ELSE StepReturn(client, JsonDumps(service_desks.value))

get_request_types_returns(client, args, net) ==
    LET request_types == Unwrap(net, "values")
    IN IF request_types.raised THEN except_Exception(client, request_types.exc)
       ELSE StepReturn(client, JsonDumps(request_types.value))

get_organizations_returns(client, args, net) ==
    LET orgs == Unwrap(net, "values")
    IN IF orgs.raised THEN except_Exception(client, orgs.exc)
       ELSE StepReturn(client, JsonDumps(orgs.value))

get_organization_users_returns(client, args, net) ==
    LET users == make_request_result(net)
    IN IF users.raised THEN except_Exception(client, users.exc)
       ELSE StepReturn(client, JsonDumps(users.value))

add_users_to_organization_returns(client, args, net) ==
    LET result == make_request_result(net)
    IN IF result.raised THEN except_HTTPError_then_Exception(client, result.exc)
       ELSE StepReturn(client, JsonDumps(result.value))

get_request_type_fields_returns(client, args, net) ==
    LET fields == Unwrap(net, "requestTypeFields")
    IN IF fields.raised THEN except_Exception(client, fields.exc)
       ELSE StepReturn(client, JsonDumps(fields.value))

create_customer_request_returns(client, args, net) ==
    LET result == make_request_result(net)
    IN IF result.raised THEN except_HTTPError_then_Exception(client, result.exc)
       ELSE StepReturn(client, JsonDumps(result.value))

update_issue_returns(client, args, net) ==
    LET result == update_request_result(net)
    IN IF result.raised THEN except_Exception(client, result.exc)
       ELSE StepReturn(client, Result("Issue ", 0, JStr(args.issue_key), FALSE,
                                      " updated successfully"))

Handlers ==
    {"servicedesk_get_service_desks", "servicedesk_get_request_types",
     "servicedesk_get_organizations", "servicedesk_get_organization_users",
     "servicedesk_add_users_to_organization", "servicedesk_get_request_type_fields",
     "servicedesk_create_customer_request", "servicedesk_update_issue"}

\* The handlers that take an optional service_desk_id.
ServiceDeskScoped ==
    {"servicedesk_get_request_types", "servicedesk_get_organizations",
     "servicedesk_get_request_type_fields", "servicedesk_create_customer_request"}

\* The tool the host dispatches to, up to its outbound call.
HandlerBody(handler, jira_config, args) ==
    CASE handler = "servicedesk_get_service_desks" ->
            servicedesk_get_service_desks(jira_config, args)
      [] handler = "servicedesk_get_request_types" ->
            servicedesk_get_request_types(jira_config, args)
      [] handler = "servicedesk_get_organizations" ->
            servicedesk_get_organizations(jira_config, args)
      [] handler = "servicedesk_get_organization_users" ->
            servicedesk_get_organization_users(jira_config, args)
      [] handler = "servicedesk_add_users_to_organization" ->
            servicedesk_add_users_to_organization(jira_config, args)
      [] handler = "servicedesk_get_request_type_fields" ->
            servicedesk_get_request_type_fields(jira_config, args)
      [] handler = "servicedesk_create_customer_request" ->
            servicedesk_create_customer_request(jira_config, args)
      [] handler = "servicedesk_update_issue" ->
            servicedesk_update_issue(jira_config, args)

\* The same tool from the answer to its outbound call on.
HandlerReturns(handler, client, args, net) ==
    CASE handler = "servicedesk_get_service_desks" ->
            get_service_desks_returns(client, args, net)
      [] handler = "servicedesk_get_request_types" ->
            get_request_types_returns(client, args, net)
      [] handler = "servicedesk_get_organizations" ->
            get_organizations_returns(client, args, net)
      [] handler = "servicedesk_get_organization_users" ->
            get_organization_users_returns(client, args, net)
      [] handler = "servicedesk_add_users_to_organization" ->
            add_users_to_organization_returns(client, args, net)
      [] handler = "servicedesk_get_request_type_fields" ->
            get_request_type_fields_returns(client, args, net)
      [] handler = "servicedesk_create_customer_request" ->
            create_customer_request_returns(client, args, net)
      [] handler = "servicedesk_update_issue" ->
            update_issue_returns(client, args, net)

\* ------------------------------------------------------ what callers pass
ServiceDeskIds == {PyNone, PyStr(""), PyStr("5"), PyInt("5")}
RequestTypeIds == {PyStr("144"), PyInt("144")}
FieldValueArgs == {PyNone} \cup {PyStr(t) : t \in JsonTexts}
Alphabet == {"a", "b", ",", " "}
RECURSIVE StringsUpTo(_)
StringsUpTo(n) ==
    IF n = 0 THEN {<<>>}
    ELSE StringsUpTo(n - 1) \cup
         {Append(str, c) : str \in {x \in StringsUpTo(n - 1) : Len(x) = n - 1},
                           c \in Alphabet}
UsernameArgs == StringsUpTo(MaxUsernamesLen) \cup {<<"a", ",", " ", ",", "b", ",">>}
Starts == 0..MaxPage
Limits == {50} \cup 1..MaxPage

ArgsOf(handler) ==
    CASE handler = "servicedesk_get_service_desks" -> {NoArgs}
      [] handler \in {"servicedesk_get_request_types", "servicedesk_get_organizations"} ->
            {[NoArgs EXCEPT !.service_desk_id = sd] : sd \in ServiceDeskIds}
      [] handler = "servicedesk_get_organization_users" ->
            {[NoArgs EXCEPT !.organization_id = PyStr("3"), !.start = s, !.limit = l] :
                s \in Starts, l \in Limits}
      [] handler = "servicedesk_add_users_to_organization" ->
            {[NoArgs EXCEPT !.organization_id = PyStr("3"), !.usernames = u] :
                u \in UsernameArgs}
      [] handler = "servicedesk_get_request_type_fields" ->
            {[NoArgs EXCEPT !.service_desk_id = sd, !.request_type_id = PyStr("144")] :
                sd \in ServiceDeskIds}
      [] handler = "servicedesk_create_customer_request" ->
            {[NoArgs EXCEPT !.service_desk_id = sd, !.request_type_id = rt,
                            !.summary = "Need access", !.description = "Please",
                            !.request_field_values = fv] :
                sd \in ServiceDeskIds, rt \in RequestTypeIds, fv \in FieldValueArgs}
      [] handler = "servicedesk_update_issue" ->
            {[NoArgs EXCEPT !.issue_key = "CS-1", !.custom_fields = cf] :
                cf \in JsonTexts}

\* The invocations the concurrent specification interleaves.
ConcurrentArgsOf(handler) ==
    CASE handler = "servicedesk_get_organizations" ->
            {[NoArgs EXCEPT !.service_desk_id = sd] : sd \in {PyNone, PyStr("5")}}
      [] handler = "servicedesk_update_issue" ->
            {[NoArgs EXCEPT !.issue_key = "CS-1", !.custom_fields = cf] :
                cf \in {"{bad", "{\"customfield_10500\": [\"53\"]}"}}
      [] handler = "servicedesk_get_service_desks" -> {NoArgs}
      [] OTHER -> {}

\* ------------------------------------------------------ the state machine
VARIABLES
    config,     \* the configuration the fetcher resolves to: never written
    inv         \* the invocations the host holds, by slot

vars == <<config, inv>>

Invocations == 1..NumInvocations

\* No answer yet to the outbound call.
NoAnswer == [failed |-> FALSE, response |-> NoResponse]

Idle ==
    [pc |-> "idle", handler |-> "", args |-> NoArgs, client |-> NoClient,
     calls |-> <<>>, answer |-> NoAnswer, result |-> NoResult, raised |-> FALSE]

Init ==
    /\ config \in Configs
    /\ inv = [i \in Invocations |-> Idle]

\* The host dispatches a tool call; the handler suspends in
\* `await get_jira_fetcher(ctx)`.
Invoke(i, handler, args) ==
    /\ inv[i].pc = "idle"
    /\ inv' = [inv EXCEPT ![i] = [Idle EXCEPT !.pc = "awaiting",
                                              !.handler = handler, !.args = args]]
    /\ UNCHANGED config

\* The handler resumes with the fetcher and runs to its outbound call, or
\* to its end when it never gets that far.
Resume(i) ==
    /\ inv[i].pc = "awaiting"
    /\ LET step == HandlerBody(inv[i].handler, config, inv[i].args)
       IN inv' = [inv EXCEPT ![i] =
                    [@ EXCEPT !.pc = IF step.kind = "call" THEN "waiting" ELSE "done",
                              !.client = step.client,
                              !.calls = IF step.kind = "call"
                                        THEN Append(@, step.request) ELSE @,
                              !.result = step.result,
                              !.raised = (step.kind = "raise")]]
    /\ UNCHANGED config

\* The network answers the outbound call and the handler runs to its end.
Respond(i, net) ==
    /\ inv[i].pc = "waiting"
    /\ LET step == HandlerReturns(inv[i].handler, inv[i].client, inv[i].args, net)
       IN inv' = [inv EXCEPT ![i] =
                    [@ EXCEPT !.pc = "done",
                              !.answer = net,
                              !.result = step.result,
                              !.raised = (step.kind = "raise")]]
    /\ UNCHANGED config

\* The host takes the returned string; the slot is free again.
Collect(i) ==
    /\ inv[i].pc = "done"
    /\ inv' = [inv EXCEPT ![i] = Idle]
    /\ UNCHANGED config

\* One tool call at a time, over everything a caller may pass.
Next ==
    \/ \E h \in Handlers : \E a \in ArgsOf(h) : Invoke(1, h, a)
    \/ Resume(1)
    \/ \E net \in NetOutcomes : Respond(1, net)
    \/ Collect(1)

Spec == Init /\ [][Next]_vars

\* Tool calls in flight together, interleaved at every suspension point.
NextConcurrent ==
    \/ \E i \in Invocations : \E h \in Handlers : \E a \in ConcurrentArgsOf(h) :
          Invoke(i, h, a)
    \/ \E i \in Invocations : Resume(i)
    \/ \E i \in Invocations : \E net \in NetOutcomes : Respond(i, net)
    \/ \E i \in Invocations : Collect(i)

SpecConcurrent == Init /\ [][NextConcurrent]_vars

\* ------------------------------------------------------------- claims
\* The handler of slot i has run its body: it waits for the answer to its
\* outbound call, or it is over.
Started(i) == inv[i].pc \in {"waiting", "done"}
Finished(i) == inv[i].pc = "done"

\* The configuration lets a client be constructed.
CanConstruct == ~ServiceDeskFetcher_init(config).raised

\* The id the caller supplied, if any, else the configured default.
Supplied(i) == Truthy(inv[i].args.service_desk_id)
ExpectedServiceDeskId(i) ==
    IF Supplied(i) THEN inv[i].args.service_desk_id ELSE config.default_service_desk_id

\* The service desk id an outbound request names: in the body of a POST,
\* after `servicedesk/` in the URL of a GET.
UsedServiceDeskId(i, request) ==
    IF request.method = "POST"
    THEN DictGet(request.json.members, "serviceDeskId", JNone).text
    ELSE request.url[Len(inv[i].client.base_url) + 3]

\* C1: every Service-Desk-scoped handler uses the caller-supplied service
\* desk id if one is supplied and the configured default otherwise; with
\* neither it returns the literal `Error: No service_desk_id provided and
\* JIRA_DEFAULT_SERVICE_DESK_ID not set`, raises nothing and issues no
\* outbound call.
C1_ServiceDeskIdDefaulting ==
    \A i \in Invocations :
        (inv[i].handler \in ServiceDeskScoped /\ Started(i)) =>
            /\ (~Supplied(i) /\ ~Truthy(config.default_service_desk_id)) =>
                  /\ Finished(i)
                  /\ inv[i].result = NoServiceDeskId
                  /\ ~inv[i].raised
                  /\ inv[i].calls = <<>>
            /\ \A n \in 1..Len(inv[i].calls) :
                  UsedServiceDeskId(i, inv[i].calls[n]) = ExpectedServiceDeskId(i).text

C1_Witness ==
    \E i \in Invocations :
        /\ inv[i].handler = "servicedesk_create_customer_request"
        /\ Finished(i)
        /\ ~Supplied(i)
        /\ ~Truthy(config.default_service_desk_id)
        /\ inv[i].result = NoServiceDeskId

\* A string json.loads rejects.
Malformed(text) == json_loads(text).raised

\* An empty request_field_values counts as not supplied, like None.
MalformedFieldValues(i) ==
    /\ inv[i].handler = "servicedesk_create_customer_request"
    /\ Truthy(inv[i].args.request_field_values)
    /\ Malformed(inv[i].args.request_field_values.text)

MalformedCustomFields(i) ==
    /\ inv[i].handler = "servicedesk_update_issue"
    /\ Malformed(inv[i].args.custom_fields)

ParseErrorReturned(i, head) ==
    /\ Finished(i)
    /\ ~inv[i].raised
    /\ inv[i].result.head = head
    /\ inv[i].calls = <<>>

\* C2 as stated: for any malformed string given as request_field_values
\* (create customer request) or custom_fields (update issue), the handler
\* returns a string starting with `Error parsing request_field_values JSON:`
\* / `Error parsing custom_fields JSON:` and issues no outbound call.
C2_Original ==
    \A i \in Invocations :
        Started(i) =>
            /\ MalformedFieldValues(i) =>
                  ParseErrorReturned(i, "Error parsing request_field_values JSON: ")
            /\ MalformedCustomFields(i) =>
                  ParseErrorReturned(i, "Error parsing custom_fields JSON: ")

\* C2 amended: the same, provided the client can be constructed from the
\* configuration and, for create customer request, a service desk id is
\* supplied or configured.
C2_ParseErrorAfterConstruction ==
    \A i \in Invocations :
        (Started(i) /\ CanConstruct) =>
            /\ (MalformedFieldValues(i) /\ Truthy(ExpectedServiceDeskId(i))) =>
                  ParseErrorReturned(i, "Error parsing request_field_values JSON: ")
            /\ MalformedCustomFields(i) =>
                  ParseErrorReturned(i, "Error parsing custom_fields JSON: ")

C2_Witness ==
    \E i \in Invocations :
        /\ MalformedFieldValues(i)
        /\ inv[i].args.request_field_values.text = "{bad"
        /\ inv[i].client.built
        /\ ParseErrorReturned(i, "Error parsing request_field_values JSON: ")

\* The outbound call of slot i ended in an HTTP error that carries a response.
HttpErrorAnswer(i) ==
    /\ Finished(i)
    /\ inv[i].calls # <<>>
    /\ ~inv[i].answer.failed
    /\ inv[i].answer.response.status >= 400

\* `HTTP Error {status}: {body}`: the pretty-printed JSON body when the
\* response text is JSON, the raw text otherwise.
HttpErrorString(response) ==
    IF response.json.kind # "invalid"
    THEN Result("HTTP Error ", response.status, response.json, TRUE, "")
    ELSE Result("HTTP Error ", response.status, JStr(response.text), FALSE, "")

\* C3: every one of the eight handlers returns `HTTP Error {status}: {body}`
\* when its outbound call ends in an HTTP error that carries a response, and
\* the generic `Error: {exception}` only for other exceptions.
C3_HttpErrorFormatEverywhere ==
    \A i \in Invocations :
        /\ HttpErrorAnswer(i) => inv[i].result = HttpErrorString(inv[i].answer.response)
        /\ (Finished(i) /\ inv[i].result.head = "Error: ") => ~HttpErrorAnswer(i)

\* C4: with a resolved service desk id and a valid configuration the list
\* organizations handler issues GET
\* {base_url}/rest/servicedeskapi/servicedesk/{sdId}/organization and, on a
\* success response, returns the pretty-printed `values` array.
C4_ListOrganizationsCall ==
    \A i \in Invocations :
        ( /\ inv[i].handler = "servicedesk_get_organizations"
          /\ Started(i)
          /\ Truthy(ExpectedServiceDeskId(i))
          /\ CanConstruct ) =>
            /\ Len(inv[i].calls) = 1
            /\ inv[i].calls[1].method = "GET"
            /\ inv[i].calls[1].url =
                  rstrip(config.url) \o
                  <<"/rest/servicedeskapi/", "servicedesk/",
                    ExpectedServiceDeskId(i).text, "/organization">>
            /\ ( /\ Finished(i)
                 /\ ~inv[i].answer.failed
                 /\ inv[i].answer.response.status < 300
                 /\ inv[i].answer.response.json.kind = "object"
                 /\ "values" \in Keys(inv[i].answer.response.json.members) ) =>
                  inv[i].result =
                      JsonDumps(DictGet(inv[i].answer.response.json.members,
                                        "values", JNone))

\* C5: once the fetcher is resolved, every invocation ends by returning a
\* string; no exception crosses the handler boundary, whatever the
\* configuration, the arguments and the network's answer.
C5_AlwaysReturnsString ==
    \A i \in Invocations :
        /\ ~inv[i].raised
        /\ Finished(i) => inv[i].result # NoResult

C5_Witness ==
    \E i \in Invocations :
        /\ inv[i].handler = "servicedesk_update_issue"
        /\ inv[i].args.custom_fields = "[1]"
        /\ Finished(i)
        /\ inv[i].result = Fmt("Error: ", "argument after ** must be a mapping")

\* The usernames a comma-separated string names, read off character by
\* character: a comma closes the entry being read, and an entry counts from
\* its first to its last character that is no blank, if it has one.
Trimmed(entry) ==
    LET solid == {n \in 1..Len(entry) : entry[n] # " "}
    IN IF solid = {} THEN <<>>
       ELSE SubSeq(entry,
                   CHOOSE n \in solid : \A k \in solid : n <= k,
                   CHOOSE n \in solid : \A k \in solid : k <= n)
Closed(entry, entries) ==
    IF Trimmed(entry) = <<>> THEN entries ELSE Append(entries, Trimmed(entry))
RECURSIVE Scan(_, _, _)
Scan(str, entry, entries) ==
    IF str = <<>> THEN Closed(entry, entries)
    ELSE IF Head(str) = "," THEN Scan(Tail(str), <<>>, Closed(entry, entries))
    ELSE Scan(Tail(str), Append(entry, Head(str)), entries)
ExpectedUsernames(str) == Scan(str, <<>>, <<>>)

UsernamesBody(entries) ==
    JObj(<<KV("usernames", JArr([n \in 1..Len(entries) |-> JStr(Join(entries[n]))]))>>)

AddUsersOutcome(i) ==
    /\ IF ExpectedUsernames(inv[i].args.usernames) = <<>>
       THEN /\ Finished(i)
            /\ inv[i].result = NoValidUsernames
            /\ inv[i].calls = <<>>
       ELSE /\ Len(inv[i].calls) = 1
            /\ inv[i].calls[1].method = "POST"
            /\ inv[i].calls[1].json =
                  UsernamesBody(ExpectedUsernames(inv[i].args.usernames))
    /\ inv[i].args.usernames = <<"a", ",", " ", ",", "b", ",">> =>
          inv[i].calls[1].json =
              JObj(<<KV("usernames", JArr(<<JStr("a"), JStr("b")>>))>>)

\* C6 as stated: add users to organization splits usernames on commas,
\* trims each entry and drops the empty ones, order kept (`a, ,b,` gives
\* [a, b]), and sends that list as the `usernames` array of the POST body;
\* when nothing is left it returns `Error: No valid usernames provided` and
\* issues no outbound call.
C6_Original ==
    \A i \in Invocations :
        (inv[i].handler = "servicedesk_add_users_to_organization" /\ Started(i)) =>
            AddUsersOutcome(i)

\* C6 amended: the same, provided the client can be constructed from the
\* configuration.
C6_UsernamesAfterConstruction ==
    \A i \in Invocations :
        ( /\ inv[i].handler = "servicedesk_add_users_to_organization"
          /\ Started(i)
          /\ CanConstruct ) =>
            AddUsersOutcome(i)

C6_Witness ==
    \E i \in Invocations :
        /\ inv[i].handler = "servicedesk_add_users_to_organization"
        /\ inv[i].args.usernames = <<"a", ",", " ", ",", "b", ",">>
        /\ inv[i].pc = "waiting"
        /\ inv[i].calls[1].json =
              JObj(<<KV("usernames", JArr(<<JStr("a"), JStr("b")>>))>>)

\* A credential that is really there: the attribute exists and holds a
\* non-empty string.
Usable(attr) == attr.type = "str" /\ attr.text # ""
HasAuthShape(jira_config) ==
    \/ Usable(jira_config.username) /\ Usable(jira_config.api_token)
    \/ Usable(jira_config.personal_token)

\* The handler of slot i got as far as constructing its client.
ReachedConstruction(i) == Started(i) /\ inv[i].result # NoServiceDeskId

\* C7: for every configuration with neither a usable (username, api_token)
\* pair nor a personal_token, constructing the client fails, so no client
\* exists that could issue a request without credentials; with at least one
\* valid auth shape construction succeeds.
C7_NoClientWithoutCredentials ==
    \A i \in Invocations :
        /\ inv[i].client.built => HasAuthShape(config)
        /\ (ReachedConstruction(i) /\ HasAuthShape(config)) => inv[i].client.built

\* C8: for every issue key and every custom_fields string that decodes to
\* a JSON object M, whatever its field names, update issue issues one PUT to
\* {base_url}/rest/api/3/issue/{key} with body {fields: M}, M unchanged.
C8_UpdatePassesFieldsVerbatim ==
    \A i \in Invocations :
        ( /\ inv[i].handler = "servicedesk_update_issue"
          /\ Started(i)
          /\ CanConstruct
          /\ ~Malformed(inv[i].args.custom_fields)
          /\ json_loads(inv[i].args.custom_fields).value.kind = "object" ) =>
            /\ Len(inv[i].calls) = 1
            /\ inv[i].calls[1].method = "PUT"
            /\ inv[i].calls[1].url =
                  rstrip(config.url) \o <<"/rest/api/3/issue/", inv[i].args.issue_key>>
            /\ inv[i].calls[1].json =
                  JObj(<<KV("fields", json_loads(inv[i].args.custom_fields).value)>>)

\* The map the caller supplied as request_field_values, {} when none.
CallerMap(i) ==
    IF Truthy(inv[i].args.request_field_values)
    THEN json_loads(inv[i].args.request_field_values.text).value
    ELSE JObj(<<>>)

\* C9: the body of a create customer request call is {serviceDeskId,
\* requestTypeId, requestFieldValues}; both ids are strings even when given
\* as numbers; requestFieldValues always has summary and description and is
\* {summary, description} updated by the caller's map: a caller's summary or
\* description replaces the parameter, every other caller key is added as is.
C9_CreateRequestBody ==
    \A i \in Invocations :
        (inv[i].handler = "servicedesk_create_customer_request" /\ inv[i].calls # <<>>) =>
            LET body == inv[i].calls[1].json
                values == DictGet(body.members, "requestFieldValues", JNone)
                given == CallerMap(i)
            IN /\ Len(inv[i].calls) = 1
               /\ body.kind = "object"
               /\ Len(body.members) = 3
               /\ Keys(body.members) = {"serviceDeskId", "requestTypeId", "requestFieldValues"}
               /\ DictGet(body.members, "serviceDeskId", JNone) =
                     JStr(ExpectedServiceDeskId(i).text)
               /\ DictGet(body.members, "requestTypeId", JNone) =
                     JStr(inv[i].args.request_type_id.text)
               /\ values.kind = "object"
               /\ Len(values.members) = Cardinality(Keys(values.members))
               /\ {"summary", "description"} \subseteq Keys(values.members)
               /\ given.kind = "object" =>
                     /\ Keys(values.members) =
                           {"summary", "description"} \cup Keys(given.members)
                     /\ \A k \in Keys(given.members) :
                           DictGet(values.members, k, JNone) =
                               DictGet(given.members, k, JNone)
                     /\ "summary" \notin Keys(given.members) =>
                           DictGet(values.members, "summary", JNone) =
                               JStr(inv[i].args.summary)
                     /\ "description" \notin Keys(given.members) =>
                           DictGet(values.members, "description", JNone) =
                               JStr(inv[i].args.description)

C9_Witness ==
    \E i \in Invocations :
        /\ inv[i].handler = "servicedesk_create_customer_request"
        /\ inv[i].pc = "waiting"
        /\ inv[i].args.service_desk_id = PyInt("5")
        /\ inv[i].args.request_type_id = PyInt("144")
        /\ inv[i].args.request_field_values = PyStr("{\"summary\": \"other\"}")
        /\ DictGet(DictGet(inv[i].calls[1].json.members, "requestFieldValues",
                           JNone).members, "summary", JNone) = JStr("other")
        /\ DictGet(inv[i].calls[1].json.members, "serviceDeskId", JNone) = JStr("5")

\* The arguments of slot i pass the handler's own validation: a service
\* desk id where one is needed, JSON that decodes, a username left.
ValidationSucceeds(i) ==
    /\ inv[i].handler \in ServiceDeskScoped => Truthy(ExpectedServiceDeskId(i))
    /\ ~MalformedFieldValues(i)
    /\ ~MalformedCustomFields(i)
    /\ inv[i].handler = "servicedesk_add_users_to_organization" =>
          ExpectedUsernames(inv[i].args.usernames) # <<>>

\* C10: under any interleaving of concurrent invocations, each invocation
\* issues exactly one outbound call when its validation and its client's
\* construction succeed, none otherwise, and never more than one.
C10_ExactlyOneCall ==
    \A i \in Invocations :
        /\ Len(inv[i].calls) <= 1
        /\ Started(i) =>
              Len(inv[i].calls) = IF ValidationSucceeds(i) /\ CanConstruct THEN 1 ELSE 0

====
